---------------------------- MODULE Spec2Model ----------------------------
(***************************************************************************)
(* Model of src/validation_app.py (the "Word Checker" survey application). *)
(*                                                                         *)
(* Text is modelled as a sequence of one-character strings, so that strip, *)
(* replace, startswith and the literal decoders work on characters.  A CSV *)
(* file is modelled at the level csv.reader delivers it: a sequence of     *)
(* lines, each a sequence of fields.  A pandas DataFrame is a record of    *)
(* its column names, its row labels (the index) and its rows.              *)
(*                                                                         *)
(* Four specifications share the module:                                   *)
(*   Spec         one browser session driving the staged script            *)
(*   SpecLexicon  load_lexicon / read_csv_manually applied to bounded files*)
(*   SpecDecode   safe_literal_eval and the example selection on texts     *)
(*   SpecStore    processes appending concurrently to the log files        *)
(***************************************************************************)
EXTENDS Integers, Sequences, FiniteSets, TLC

VARIABLES
    \* ---- st.session_state (initialize_state, lines 63-81)
    app_stage, user_language, user_name, participant_id, word_df,
    word_indices, current_word_idx_position, user_answers, form_key,
    lexicon_error,
    user_name_input,    \* the text of the name box (widget key, line 651)
    \* ---- the script run and its environment
    rerun_pending,      \* st.rerun() was called: the script runs again at once
    save_success,       \* the value save_answers returned to the last submit
    clock,              \* datetime.now(), strictly increasing
    participants_before,\* history: rows of participants.csv when the
                        \* session state was last initialised
    participants_log,   \* the lines of data/participants.csv
    answers_log,        \* language -> the lines of data/answers_<language>.csv
    \* ---- SpecLexicon
    lex_file, lex_num_words, lex_result, lex_pc,
    \* ---- SpecDecode
    dec_text, dec_result, dec_pc,
    \* ---- SpecStore
    st_files, st_pc, st_file_exists, st_target

sessionVars == <<app_stage, user_language, user_name, participant_id, word_df,
                 word_indices, current_word_idx_position, user_answers,
                 form_key, lexicon_error, user_name_input, rerun_pending,
                 save_success, clock, participants_before, participants_log,
                 answers_log>>
lexVars == <<lex_file, lex_num_words, lex_result, lex_pc>>
decVars == <<dec_text, dec_result, dec_pc>>
storeVars == <<st_files, st_pc, st_file_exists, st_target>>
vars == <<sessionVars, lexVars, decVars, storeVars>>

(***************************************************************************)
(* Bounds of the model.                                                    *)
(***************************************************************************)
\* WORDS_TO_SHOW is 18 in the source (line 18); the model scales it down.
WORDS_TO_SHOW == 2
MaxClock == 5           \* readings of datetime.now() over the whole run
MaxLines == 3           \* lines of a lexicon file in SpecLexicon
MaxNumWords == 2        \* num_words passed to load_lexicon in SpecLexicon
MaxTextLen == 4         \* characters of a serialized example text
MaxCalls == 2           \* decodings of the same text in SpecDecode
\* nesting depth at which json.loads raises RecursionError; the interpreter's
\* limit (about 1000 frames) scaled down to the texts of the model
RecursionLimit == 2
MaxAppends == 2         \* appends of one process in SpecStore

(***************************************************************************)
(* Python values used throughout.                                          *)
(***************************************************************************)
None == "None"
NoneText == <<"None">>  \* None where the other values are texts
NaN == <<"NaN">>        \* pandas' missing value, distinct from every text
EmptyStr == <<>>

\* --- Constants (lines 13-18)
AVAILABLE_LANGUAGES == <<"sotho", "sepedi", "setswana">>

Range(s) == {s[i] : i \in 1..Len(s)}
Min(a, b) == IF a <= b THEN a ELSE b

(***************************************************************************)
(* str methods.                                                            *)
(***************************************************************************)
IsSpace(c) == c = " "

\* variant of Strip that leaves the text as it was typed
Unstripped(s) == s

RECURSIVE LStrip(_)
LStrip(s) == IF s # <<>> /\ IsSpace(Head(s)) THEN LStrip(Tail(s)) ELSE s

RECURSIVE RStrip(_)
RStrip(s) ==
    IF s # <<>> /\ IsSpace(s[Len(s)]) THEN RStrip(SubSeq(s, 1, Len(s) - 1))
    ELSE s

\* str.strip()
Strip(s) == RStrip(LStrip(s))

\* str.startswith / str.endswith
StartsWith(s, p) == Len(p) <= Len(s) /\ SubSeq(s, 1, Len(p)) = p
EndsWith(s, p) ==
    Len(p) <= Len(s) /\ SubSeq(s, Len(s) - Len(p) + 1, Len(s)) = p

\* p in s
Contains(s, p) ==
    \E i \in 1..(Len(s) - Len(p) + 1) : SubSeq(s, i, i + Len(p) - 1) = p

\* str.replace(old, new): leftmost non-overlapping occurrences
RECURSIVE Replace(_, _, _)
Replace(s, old, new) ==
    IF s = <<>> THEN <<>>
    ELSE IF StartsWith(s, old)
         THEN new \o Replace(SubSeq(s, Len(old) + 1, Len(s)), old, new)
         ELSE <<Head(s)>> \o Replace(Tail(s), old, new)

UpperCase == <<"A","B","C","D","E","F","G","H","I","J","K","L","M",
               "N","O","P","Q","R","S","T","U","V","W","X","Y","Z">>
LowerCase == <<"a","b","c","d","e","f","g","h","i","j","k","l","m",
               "n","o","p","q","r","s","t","u","v","w","x","y","z">>
LowerChar(c) ==
    IF \E i \in 1..26 : UpperCase[i] = c
    THEN LowerCase[CHOOSE i \in 1..26 : UpperCase[i] = c]
    ELSE c
\* str.lower()
Lower(s) == [i \in 1..Len(s) |-> LowerChar(s[i])]

Digits == <<"0","1","2","3","4","5","6","7","8","9">>
IsDigit(c) == \E i \in 1..10 : Digits[i] = c
DigitVal(c) == (CHOOSE i \in 1..10 : Digits[i] = c) - 1
RECURSIVE DecimalValue(_)
DecimalValue(s) ==
    IF s = <<>> THEN 0
    ELSE 10 * DecimalValue(SubSeq(s, 1, Len(s) - 1)) + DigitVal(s[Len(s)])
\* pd.to_numeric(x, errors='coerce').fillna(0).astype(int) on one cell
ToInt(x) ==
    LET t == IF x = NaN THEN <<>> ELSE Strip(x) IN
    IF t # <<>> /\ \A i \in 1..Len(t) : IsDigit(t[i]) THEN DecimalValue(t)
    ELSE 0

(***************************************************************************)
(* Column names of the lexicon table.                                      *)
(***************************************************************************)
c_word == <<"w","o","r","d">>
c_words == <<"w","o","r","d","s">>
c_term == <<"t","e","r","m">>
c_lemma == <<"l","e","m","m","a">>
c_meaning == <<"m","e","a","n","i","n","g">>
c_sentiment == <<"s","e","n","t","i","m","e","n","t">>
c_explanation == <<"e","x","p","l","a","n","a","t","i","o","n">>
c_intensity == <<"i","n","t","e","n","s","i","t","y">>
c_source_sentences ==
    <<"s","o","u","r","c","e","_","s","e","n","t","e","n","c","e","s">>
c_prompt_type == <<"p","r","o","m","p","t","_","t","y","p","e">>
c_rating == <<"r","a","t","i","n","g">>
c_example == <<"e","x","a","m","p","l","e">>

(***************************************************************************)
(* DataFrames.                                                             *)
(***************************************************************************)
\* pd.DataFrame()
EmptyDataFrame == [columns |-> <<>>, index |-> <<>>, rows |-> <<>>]
\* df.empty
IsEmptyDF(df) == df.columns = <<>> \/ df.index = <<>>
HasColumn(df, c) == \E j \in 1..Len(df.columns) : df.columns[j] = c
ColumnPos(df, c) == CHOOSE j \in 1..Len(df.columns) : df.columns[j] = c
\* df.loc[label][c]
Cell(df, i, c) == df.rows[i][ColumnPos(df, c)]
\* df[c] = values : a new column is appended, an existing one overwritten
SetColumn(df, c, values) ==
    IF HasColumn(df, c)
    THEN [df EXCEPT !.rows =
            [i \in 1..Len(df.rows) |->
                [df.rows[i] EXCEPT ![ColumnPos(df, c)] = values[i]]]]
    ELSE [df EXCEPT !.columns = Append(df.columns, c),
                    !.rows = [i \in 1..Len(df.rows) |->
                                Append(df.rows[i], values[i])]]
\* df.loc[label]
PosOfLabel(df, label) == CHOOSE i \in 1..Len(df.index) : df.index[i] = label
RowAt(df, label) == df.rows[PosOfLabel(df, label)]
Entry(df, label, c) == RowAt(df, label)[ColumnPos(df, c)]

RECURSIVE SelectSeq2(_, _)
\* positions (ascending) of the rows a boolean mask keeps
SelectSeq2(mask, i) ==
    IF i > Len(mask) THEN <<>>
    ELSE (IF mask[i] THEN <<i>> ELSE <<>>) \o SelectSeq2(mask, i + 1)
\* df[mask]: rows keep their labels
Filter(df, mask) ==
    LET keep == SelectSeq2(mask, 1) IN
    [df EXCEPT !.index = [j \in 1..Len(keep) |-> df.index[keep[j]]],
               !.rows = [j \in 1..Len(keep) |-> df.rows[keep[j]]]]


(***************************************************************************)
(* read_csv_manually (lines 83-156).  `lines` is what csv.reader yields:   *)
(* the header line first, then the data lines.                             *)
(***************************************************************************)
\* not any(field.strip() for field in row)  (line 108)
IsBlankRow(row) == \A j \in 1..Len(row) : Strip(row[j]) = <<>>

\* variant of RepairRow that keeps the row as it was read
KeepAsRead(row, expected_fields) == row

\* lines 112-125: keep, pad with '' or truncate to expected_fields
RepairRow(row, expected_fields) ==
    IF Len(row) = expected_fields THEN row
    ELSE IF Len(row) < expected_fields
         THEN row \o [j \in 1..(expected_fields - Len(row)) |-> EmptyStr]
         ELSE SubSeq(row, 1, expected_fields)

RECURSIVE CsvData(_, _)
\* the loop of lines 106-125
CsvData(rows, expected_fields) ==
    IF rows = <<>> THEN <<>>
    ELSE (IF IsBlankRow(Head(rows)) THEN <<>>
          ELSE <<RepairRow(Head(rows), expected_fields)>>)
         \o CsvData(Tail(rows), expected_fields)

read_csv_manually(lines) ==
    IF lines = <<>> THEN EmptyDataFrame               \* StopIteration
    ELSE LET header == Head(lines)
             data == CsvData(Tail(lines), Len(header))
         IN  IF data = <<>>
             THEN IF header # <<>>
                  THEN [columns |-> header, index |-> <<>>, rows |-> <<>>]
                  ELSE EmptyDataFrame
             ELSE [columns |-> header,
                   index |-> [i \in 1..Len(data) |-> i - 1],
                   rows |-> data]

(***************************************************************************)
(* pd.read_csv(filepath, on_bad_lines='warn'), the fallback of lines       *)
(* 192-201: blank lines are skipped, an empty field is NaN, a short line   *)
(* is filled with NaN, a line with too many fields is skipped with a       *)
(* warning.  A file without any line raises EmptyDataError.                *)
(***************************************************************************)
RECURSIVE PandasData(_, _)
PandasData(rows, n) ==
    IF rows = <<>> THEN <<>>
    ELSE LET r == Head(rows) IN
         (IF r = <<>> \/ Len(r) > n THEN <<>>
          ELSE <<[j \in 1..n |->
                    IF j > Len(r) \/ r[j] = <<>> THEN NaN ELSE r[j]]>>)
         \o PandasData(Tail(rows), n)

RECURSIVE DropBlankLines(_)
DropBlankLines(lines) ==
    IF lines = <<>> THEN <<>>
    ELSE (IF Head(lines) = <<>> THEN <<>> ELSE <<Head(lines)>>)
         \o DropBlankLines(Tail(lines))

\* [raised |-> TRUE] or [raised |-> FALSE, df |-> ...]
pandas_read_csv(lines) ==
    LET ls == DropBlankLines(lines) IN
    IF ls = <<>> THEN [raised |-> TRUE, df |-> EmptyDataFrame]
    ELSE LET data == PandasData(Tail(ls), Len(Head(ls))) IN
         [raised |-> FALSE,
          df |-> [columns |-> Head(ls),
                  index |-> [i \in 1..Len(data) |-> i - 1],
                  rows |-> data]]

(***************************************************************************)
(* normalize_column_names (lines 158-167)                                  *)
(***************************************************************************)
normalize_column_names(df) ==
    [df EXCEPT !.columns =
        [j \in 1..Len(df.columns) |-> Strip(Lower(df.columns[j]))]]

(***************************************************************************)
(* load_lexicon (lines 169-298).  The file system is an input: `file` is   *)
(* [exists |-> BOOLEAN, lines |-> the csv lines].  The result is the set   *)
(* of outcomes the call can end with: df is the table returned,            *)
(* lexicon_error what it leaves in the session state, full_df the cleaned  *)
(* table the words were selected from.  random.sample is the only source   *)
(* of choice.                                                              *)
(***************************************************************************)
\* variant of Failure that returns the empty table and records no message
SilentFailure(msg) ==
    {[df |-> [columns |-> <<>>, index |-> <<>>, rows |-> <<>>],
      lexicon_error |-> "None",
      full_df |-> [columns |-> <<>>, index |-> <<>>, rows |-> <<>>]]}

Failure(msg) ==
    {[df |-> EmptyDataFrame, lexicon_error |-> msg,
      full_df |-> EmptyDataFrame]}

\* lines 209-229: the column that becomes 'word'
possible_word_cols == <<c_word, c_words, c_term, c_lemma>>
WordColumn(df) ==
    IF \E p \in 1..Len(possible_word_cols) : HasColumn(df, possible_word_cols[p])
    THEN possible_word_cols[
            CHOOSE p \in 1..Len(possible_word_cols) :
                /\ HasColumn(df, possible_word_cols[p])
                /\ \A q \in 1..(p - 1) : ~HasColumn(df, possible_word_cols[q])]
    ELSE IF \E j \in 1..Len(df.columns) : Contains(df.columns[j], c_word)
         THEN df.columns[
                CHOOSE j \in 1..Len(df.columns) :
                    /\ Contains(df.columns[j], c_word)
                    /\ \A q \in 1..(j - 1) : ~Contains(df.columns[q], c_word)]
         ELSE df.columns[1]

\* full_df.rename(columns={old: new})  (line 234)
RenameColumn(df, old, new) ==
    [df EXCEPT !.columns =
        [j \in 1..Len(df.columns) |->
            IF df.columns[j] = old THEN new ELSE df.columns[j]]]

\* lines 243-255, one step of the loop over standard_cols
standard_cols == <<c_word, c_meaning, c_sentiment, c_explanation, c_intensity,
                   c_source_sentences, c_prompt_type>>
EnsureColumn(df, col) ==
    IF HasColumn(df, col) THEN df
    ELSE IF col = c_intensity /\ HasColumn(df, c_rating)
         THEN LET p == ColumnPos(df, c_rating)
                  FromRating(row) == ToInt(row[p])
              IN  SetColumn(df, c_intensity,
                            [i \in 1..Len(df.rows) |-> FromRating(df.rows[i])])
    ELSE IF col = c_source_sentences /\ HasColumn(df, c_example)
         THEN LET p == ColumnPos(df, c_example)
                  FromExample(row) == row[p]
              IN  SetColumn(df, c_source_sentences,
                            [i \in 1..Len(df.rows) |-> FromExample(df.rows[i])])
    ELSE SetColumn(df, col, [i \in 1..Len(df.rows) |-> EmptyStr])

RECURSIVE EnsureColumns(_, _)
EnsureColumns(df, i) ==
    IF i > Len(standard_cols) THEN df
    ELSE EnsureColumns(EnsureColumn(df, standard_cols[i]), i + 1)

\* series.fillna(value).astype(str) on one column (lines 258-264)
FillNa(df, col, value) ==
    LET p == ColumnPos(df, col)
        Filled(row) == IF row[p] = NaN THEN value ELSE row[p]
    IN  SetColumn(df, col, [i \in 1..Len(df.rows) |-> Filled(df.rows[i])])

Unknown == <<"U","n","k","n","o","w","n">>

\* lines 257-264.  `from_rating`: the intensity column was filled from
\* 'rating' at line 248 and already holds integers, which to_numeric keeps.
CoerceTypes(df, from_rating) ==
    LET d1 == FillNa(df, c_word, EmptyStr)
        d2 == FillNa(d1, c_meaning, EmptyStr)
        d3 == FillNa(d2, c_sentiment, EmptyStr)
        d4 == FillNa(d3, c_explanation, EmptyStr)
        p == ColumnPos(d4, c_intensity)
        AsInt(row) == IF from_rating THEN row[p] ELSE ToInt(row[p])
        d5 == SetColumn(d4, c_intensity,
                        [i \in 1..Len(d4.rows) |-> AsInt(d4.rows[i])])
        d6 == FillNa(d5, c_source_sentences, EmptyStr)
    IN  FillNa(d6, c_prompt_type, Unknown)

\* variant of WordMask without the strip
WordMaskUnstripped(df) ==
    [i \in 1..Len(df.rows) |-> Cell(df, i, c_word) # <<>>]

\* the mask of line 269: full_df['word'].str.strip() != ''
WordMask(df) ==
    [i \in 1..Len(df.rows) |-> Strip(Cell(df, i, c_word)) # <<>>]

\* lines 206-269: normalisation and cleaning of a parsed table
CleanLexicon(parsed) ==
    LET d0 == normalize_column_names(parsed)
        found == WordColumn(d0)
        d1 == IF found # c_word THEN RenameColumn(d0, found, c_word) ELSE d0
        from_rating == ~HasColumn(d1, c_intensity) /\ HasColumn(d1, c_rating)
        d2 == CoerceTypes(EnsureColumns(d1, 1), from_rating)
    IN  Filter(d2, WordMask(d2))

\* variant of RandomSample that draws with replacement
SampleWithReplacement(n, k) == [1..k -> 1..n]

\* random.sample(range(n), k): the ordered choices of k distinct positions
RandomSample(n, k) ==
    {s \in [1..k -> 1..n] : \A a, b \in 1..k : a # b => s[a] # s[b]}

\* lines 282-290
SelectWords(full_df, num_words) ==
    IF Len(full_df.rows) >= num_words
    THEN {[full_df EXCEPT
             !.index = [j \in 1..num_words |-> j - 1],    \* reset_index
             !.rows = [j \in 1..num_words |-> full_df.rows[s[j]]]] :
          s \in RandomSample(Len(full_df.rows), num_words)}
    ELSE {full_df}

load_lexicon(file, language, num_words) ==
    IF language = None THEN Failure("No language selected.")
    ELSE IF ~file.exists THEN Failure("Lexicon file not found")
    ELSE
    LET manual == read_csv_manually(file.lines)
        fallback == pandas_read_csv(file.lines)
    IN
    IF IsEmptyDF(manual) /\ file.lines = <<>>          \* getsize == 0
    THEN Failure("Lexicon file is empty.")
    ELSE IF IsEmptyDF(manual) /\ fallback.raised
    THEN Failure("Could not parse with manual or pandas reader.")
    ELSE IF IsEmptyDF(manual) /\ IsEmptyDF(fallback.df)
    THEN Failure("Fallback pandas read also resulted in empty DataFrame.")
    ELSE
    LET parsed == IF IsEmptyDF(manual) THEN fallback.df ELSE manual
        full_df == CleanLexicon(parsed)
    IN  IF IsEmptyDF(full_df)
        THEN Failure("No valid words found after cleaning.")
        ELSE {[df |-> df, lexicon_error |-> None, full_df |-> full_df] :
              df \in SelectWords(full_df, num_words)}


(***************************************************************************)
(* Python values a decoded text can be: [t |-> "str", v |-> characters],   *)
(* [t |-> "list" | "set", v |-> elements], [t |-> "dict", v |-> <<>>].     *)
(* The alphabet of the texts has no ',' and no ':', so a list or a set     *)
(* literal holds at most one element and a dict literal is empty.          *)
(***************************************************************************)
PyStr(chars) == [t |-> "str", v |-> chars]
PyList(elems) == [t |-> "list", v |-> elems]
PySet(elems) == [t |-> "set", v |-> elems]
PyDict == [t |-> "dict", v |-> <<>>]

\* what safe_literal_eval leaves when an exception escapes it
Raised == [t |-> "RecursionError", v |-> <<>>]

Parsed(val, rest) ==
    [ok |-> TRUE, overflow |-> FALSE, val |-> val, rest |-> rest]
ParseError ==
    [ok |-> FALSE, overflow |-> FALSE, val |-> PyDict, rest |-> <<>>]
\* the scanner of json.loads went deeper than the interpreter allows
RecursionError ==
    [ok |-> FALSE, overflow |-> TRUE, val |-> PyDict, rest |-> <<>>]

DQ == "\""
SQ == "'"
BS == "\\"
BEL == "BEL"            \* the character '\a' of a Python string literal

(***************************************************************************)
(* json.loads (line 47).  Raises JSONDecodeError, here ParseError, or      *)
(* RecursionError when arrays or objects nest RecursionLimit deep.         *)
(***************************************************************************)
RECURSIVE JsonString(_, _)
\* the characters after the opening quote
JsonString(s, acc) ==
    IF s = <<>> THEN ParseError
    ELSE IF Head(s) = DQ THEN Parsed(PyStr(acc), Tail(s))
    ELSE IF Head(s) = BS
         THEN IF Len(s) >= 2 /\ s[2] \in {DQ, BS}
              THEN JsonString(SubSeq(s, 3, Len(s)), Append(acc, s[2]))
              ELSE ParseError                      \* invalid \escape
    ELSE JsonString(Tail(s), Append(acc, Head(s)))

RECURSIVE JsonValue(_, _)
\* `depth`: the arrays and objects the scanner is inside of
JsonValue(s, depth) ==
    IF s = <<>> THEN ParseError
    ELSE IF Head(s) = DQ THEN JsonString(Tail(s), <<>>)
    ELSE IF Head(s) \in {"[", "{"} /\ depth >= RecursionLimit
         THEN RecursionError
    ELSE IF Head(s) = "["
         THEN LET r == LStrip(Tail(s)) IN
              IF r # <<>> /\ Head(r) = "]" THEN Parsed(PyList(<<>>), Tail(r))
              ELSE LET e == JsonValue(r, depth + 1)
                       r2 == LStrip(e.rest)
                   IN  IF e.overflow THEN RecursionError
                       ELSE IF e.ok /\ r2 # <<>> /\ Head(r2) = "]"
                       THEN Parsed(PyList(<<e.val>>), Tail(r2))
                       ELSE ParseError
    ELSE IF Head(s) = "{"
         THEN LET r == LStrip(Tail(s)) IN
              IF r # <<>> /\ Head(r) = "}" THEN Parsed(PyDict, Tail(r))
              ELSE ParseError
    ELSE ParseError

json_loads(s) ==
    LET r == JsonValue(LStrip(s), 0) IN
    IF r.overflow \/ (r.ok /\ LStrip(r.rest) = <<>>) THEN r
    ELSE ParseError                                             \* Extra data

(***************************************************************************)
(* ast.literal_eval (line 57).  Raises ValueError, SyntaxError or          *)
(* TypeError, all caught at line 59: here ParseError.                      *)
(***************************************************************************)
\* what a backslash and the character after it stand for in a literal
PyEscape(c) ==
    IF c \in {BS, SQ, DQ} THEN <<c>>
    ELSE IF c = "a" THEN <<BEL>>
    ELSE <<BS, c>>                                 \* unknown escape: kept

RECURSIVE PyQuoted(_, _, _)
\* the characters after the opening quote(s) of a literal closed by `close`
PyQuoted(s, close, acc) ==
    IF s = <<>> THEN ParseError                    \* unterminated
    ELSE IF StartsWith(s, close)
         THEN Parsed(PyStr(acc), SubSeq(s, Len(close) + 1, Len(s)))
    ELSE IF Head(s) = BS
         THEN IF Len(s) >= 2
              THEN PyQuoted(SubSeq(s, 3, Len(s)), close,
                            acc \o PyEscape(s[2]))
              ELSE ParseError
    ELSE PyQuoted(Tail(s), close, Append(acc, Head(s)))

\* one string literal: '...', "...", or triple-quoted
PyStringLiteral(s) ==
    LET q == Head(s) IN
    IF StartsWith(s, <<q, q, q>>)
    THEN PyQuoted(SubSeq(s, 4, Len(s)), <<q, q, q>>, <<>>)
    ELSE PyQuoted(Tail(s), <<q>>, <<>>)

RECURSIVE PyStrings(_)
\* adjacent string literals are concatenated
PyStrings(s) ==
    LET first == PyStringLiteral(s)
        r == LStrip(first.rest)
    IN  IF ~first.ok THEN ParseError
        ELSE IF r # <<>> /\ Head(r) \in {SQ, DQ}
             THEN LET more == PyStrings(r) IN
                  IF more.ok
                  THEN Parsed(PyStr(first.val.v \o more.val.v), more.rest)
                  ELSE ParseError
             ELSE first

RECURSIVE PyAtom(_)
PyAtom(s) ==
    IF s = <<>> THEN ParseError
    ELSE IF Head(s) \in {SQ, DQ} THEN PyStrings(s)
    ELSE IF Head(s) = "["
         THEN LET r == LStrip(Tail(s)) IN
              IF r # <<>> /\ Head(r) = "]" THEN Parsed(PyList(<<>>), Tail(r))
              ELSE LET e == PyAtom(r)
                       r2 == LStrip(e.rest)
                   IN  IF e.ok /\ r2 # <<>> /\ Head(r2) = "]"
                       THEN Parsed(PyList(<<e.val>>), Tail(r2))
                       ELSE ParseError
    ELSE IF Head(s) = "{"
         THEN LET r == LStrip(Tail(s)) IN
              IF r # <<>> /\ Head(r) = "}" THEN Parsed(PyDict, Tail(r))
              ELSE LET e == PyAtom(r)
                       r2 == LStrip(e.rest)
                   IN  \* a set element must be hashable (TypeError)
                       IF e.ok /\ e.val.t = "str" /\ r2 # <<>> /\ Head(r2) = "}"
                       THEN Parsed(PySet(<<e.val>>), Tail(r2))
                       ELSE ParseError
    ELSE ParseError                                \* a name, a stray '\'

ast_literal_eval(s) ==
    LET r == PyAtom(LStrip(s)) IN
    IF r.ok /\ LStrip(r.rest) = <<>> THEN r ELSE ParseError

(***************************************************************************)
(* safe_literal_eval (lines 21-61), on a text.                             *)
(***************************************************************************)
TEMP_APOSTROPHE == "___TEMP_APOSTROPHE___"

\* lines 39-44
NormaliseQuotes(pv) ==
    LET p1 == Replace(pv, <<SQ, "s", " ">>, <<TEMP_APOSTROPHE>>)
        p2 == Replace(p1, <<SQ, ":", " ", SQ>>, <<DQ, ":", " ", DQ>>)
        p3 == Replace(p2, <<"{", SQ>>, <<"{", DQ>>)
        p4 == Replace(p3, <<SQ, ",">>, <<DQ, ",">>)
        p5 == Replace(p4, <<SQ, "}">>, <<DQ, "}">>)
    IN  Replace(p5, <<TEMP_APOSTROPHE>>, <<SQ, "s", " ">>)

LooksLikeList(s) == StartsWith(s, <<"[">>) /\ EndsWith(s, <<"]">>)
LooksLikeDict(s) == StartsWith(s, <<"{">>) /\ EndsWith(s, <<"}">>)

\* lines 53-61
LiteralFallback(val) ==
    IF LooksLikeList(val) \/ LooksLikeDict(val)
    THEN LET p == ast_literal_eval(val) IN
         IF p.ok THEN p.val ELSE PyStr(val)
    ELSE PyStr(val)

safe_literal_eval(val) ==
    IF Strip(val) = <<>> THEN PyStr(val)                        \* line 26
    ELSE LET processed_val == Replace(val, <<BS, DQ>>, <<DQ>>)  \* line 31
         IN  IF LooksLikeList(processed_val)
             THEN LET pv == IF Contains(processed_val, <<"{">>)
                               /\ Contains(processed_val, <<"}">>)
                            THEN NormaliseQuotes(processed_val)
                            ELSE processed_val
                      j == json_loads(pv)
                  IN  IF j.overflow THEN Raised          \* not caught at 49
                      ELSE IF j.ok THEN j.val ELSE LiteralFallback(val)
             ELSE LiteralFallback(val)

(***************************************************************************)
(* str() of a decoded value (line 739).                                    *)
(***************************************************************************)
RECURSIVE ReprChars(_, _)
ReprChars(s, q) ==
    IF s = <<>> THEN <<>>
    ELSE (IF Head(s) = BS THEN <<BS, BS>>
          ELSE IF Head(s) = q THEN <<BS, q>>
          ELSE IF Head(s) = BEL THEN <<BS, "x", "0", "7">>
          ELSE <<Head(s)>>) \o ReprChars(Tail(s), q)

\* repr() of a str
ReprStr(s) ==
    LET q == IF SQ \in Range(s) /\ DQ \notin Range(s) THEN DQ ELSE SQ IN
    <<q>> \o ReprChars(s, q) \o <<q>>

RECURSIVE Repr(_)
Repr(x) ==
    IF x.t = "str" THEN ReprStr(x.v)
    ELSE IF x.t = "dict" THEN <<"{", "}">>
    ELSE LET open == IF x.t = "list" THEN "[" ELSE "{"
             close == IF x.t = "list" THEN "]" ELSE "}"
         IN  <<open>> \o (IF x.v = <<>> THEN <<>> ELSE Repr(x.v[1]))
             \o <<close>>

\* str(x)
Str(x) == IF x.t = "str" THEN x.v ELSE Repr(x)

(***************************************************************************)
(* The example selection of the validation stage (lines 734-741) and the   *)
(* value stored as example_sentence (line 847).                            *)
(***************************************************************************)
ExampleOf(parsed_sentences) ==
    IF parsed_sentences.t = "list" /\ parsed_sentences.v # <<>>
    THEN Strip(Str(parsed_sentences.v[1]))
    ELSE IF parsed_sentences.t = "str" /\ parsed_sentences.v # <<>>
         THEN parsed_sentences.v
         ELSE EmptyStr

example_sentence(raw_sentences) == ExampleOf(safe_literal_eval(raw_sentences))

\* str(x) if x else None
StoredText(x) == IF x # <<>> THEN x ELSE NoneText


(***************************************************************************)
(* Values the variables of a specification hold while it is not the one    *)
(* being run.                                                              *)
(***************************************************************************)
NoParticipant == [language |-> None, name |-> EmptyStr, timestamp |-> 0]

LexIdle ==
    /\ lex_file = [exists |-> FALSE, lines |-> <<>>]
    /\ lex_num_words = 0
    /\ lex_result = [parsed |-> EmptyDataFrame, full_df |-> EmptyDataFrame,
                     df |-> EmptyDataFrame, lexicon_error |-> None]
    /\ lex_pc = "idle"

DecIdle ==
    /\ dec_text = EmptyStr
    /\ dec_result = <<>>
    /\ dec_pc = "idle"

StoreIdle ==
    /\ st_files = <<>>
    /\ st_pc = <<>>
    /\ st_file_exists = <<>>
    /\ st_target = <<>>

SessionIdle ==
    /\ app_stage = "idle"
    /\ user_language = None
    /\ user_name = EmptyStr
    /\ participant_id = NoParticipant
    /\ word_df = EmptyDataFrame
    /\ word_indices = <<>>
    /\ current_word_idx_position = 0
    /\ user_answers = <<>>
    /\ form_key = 0
    /\ lexicon_error = None
    /\ user_name_input = EmptyStr
    /\ rerun_pending = FALSE
    /\ save_success = None
    /\ clock = 0
    /\ participants_before = 0
    /\ participants_log = <<>>
    /\ answers_log = <<>>

(***************************************************************************)
(* SpecLexicon: load_lexicon applied to every bounded lexicon file.        *)
(***************************************************************************)
\* a field is blank or not; the empty field comes in by padding
FieldValues == {<<" ">>, <<"a">>}
LexHeaders == {<<<<" ", "W", "o", "r", "d">>>>, <<c_meaning, c_term>>}
\* a data line has up to one field more than the header
LexRows(h) == UNION {[1..n -> FieldValues] : n \in 0..(Len(h) + 1)}
LexFiles ==
    {[exists |-> FALSE, lines |-> <<>>], [exists |-> TRUE, lines |-> <<>>]}
    \cup UNION {{[exists |-> TRUE, lines |-> <<h>> \o rows] :
                    rows \in UNION {[1..n -> LexRows(h)] :
                                        n \in 0..(MaxLines - 1)}} :
                 h \in LexHeaders}

InitLexicon ==
    /\ lex_file \in LexFiles
    /\ lex_num_words \in 0..MaxNumWords
    /\ lex_result = [parsed |-> EmptyDataFrame, full_df |-> EmptyDataFrame,
                     df |-> EmptyDataFrame, lexicon_error |-> None]
    /\ lex_pc = "input"
    /\ SessionIdle /\ DecIdle /\ StoreIdle

\* one call load_lexicon(language, num_words) on the file of the language
LoadLexicon ==
    /\ lex_pc = "input"
    /\ \E r \in load_lexicon(lex_file, "sotho", lex_num_words) :
          lex_result' = [parsed |-> IF lex_file.exists
                                    THEN read_csv_manually(lex_file.lines)
                                    ELSE EmptyDataFrame,
                         full_df |-> r.full_df,
                         df |-> r.df,
                         lexicon_error |-> r.lexicon_error]
    /\ lex_pc' = "loaded"
    /\ UNCHANGED <<lex_file, lex_num_words, sessionVars, decVars, storeVars>>

NextLexicon == LoadLexicon
SpecLexicon == InitLexicon /\ [][NextLexicon]_vars

(***************************************************************************)
(* SpecDecode: the decoding of a serialized example text, called up to     *)
(* MaxCalls times on the same text.                                        *)
(***************************************************************************)
DecodeAlphabet == {"[", "]", "{", "}", SQ, DQ, BS, "a", " "}
Texts == UNION {[1..n -> DecodeAlphabet] : n \in 0..MaxTextLen}

InitDecode ==
    /\ dec_text \in Texts
    /\ dec_result = <<>>
    /\ dec_pc = "input"
    /\ SessionIdle /\ LexIdle /\ StoreIdle

\* lines 734-741 and 847 on raw_sentences = dec_text; an exception that
\* escapes safe_literal_eval ends the run before anything is selected
Decode ==
    /\ dec_pc \in {"input", "decoded"}
    /\ Len(dec_result) < MaxCalls
    /\ LET parsed_sentences == safe_literal_eval(dec_text)
           example == ExampleOf(parsed_sentences)
       IN  dec_result' = Append(dec_result,
                                [raised |-> parsed_sentences = Raised,
                                 parsed_sentences |-> parsed_sentences,
                                 example_sentence |-> example,
                                 stored |-> StoredText(example)])
    /\ dec_pc' = "decoded"
    /\ UNCHANGED <<dec_text, sessionVars, lexVars, storeVars>>

NextDecode == Decode
SpecDecode == InitDecode /\ [][NextDecode]_vars


(***************************************************************************)
(* The response store: a log file is the sequence of its lines, <<>> while *)
(* the file does not exist.  DataFrame.to_csv(path, mode='a',              *)
(* header=not file_exists) writes the header line first when asked to.     *)
(***************************************************************************)
HeaderLine == [kind |-> "header", data |-> <<>>]
DataLine(row) == [kind |-> "row", data |-> row]

\* os.path.exists(path)  (lines 313, 354)
FileExists(lines) == lines # <<>>

\* df_new.to_csv(path, mode='a', header=not file_exists)  (lines 314, 357)
ToCsvAppend(lines, rows, file_exists) ==
    lines \o (IF file_exists THEN <<>> ELSE <<HeaderLine>>)
          \o [i \in 1..Len(rows) |-> DataLine(rows[i])]

RECURSIVE DataRows(_)
\* the data rows of a log file, in file order
DataRows(lines) ==
    IF lines = <<>> THEN <<>>
    ELSE (IF Head(lines).kind = "row" THEN <<Head(lines).data>> ELSE <<>>)
         \o DataRows(Tail(lines))

\* save_participant_info (lines 300-323) when the write succeeds
save_participant_info(lines, pid, name, lang, now) ==
    ToCsvAppend(lines,
                <<[participant_id |-> pid, name |-> name, language |-> lang,
                   start_time |-> now]>>,
                FileExists(lines))

\* save_answers (lines 325-366) when the write succeeds
save_answers(lines, answers_list, lang, pid) ==
    ToCsvAppend(lines,
                [i \in 1..Len(answers_list) |->
                    [answer |-> answers_list[i], participant_id |-> pid,
                     language |-> lang]],
                FileExists(lines))

(***************************************************************************)
(* The data directory of the session specification.                        *)
(***************************************************************************)
Word(i) == <<LowerCase[i]>>
\* every second entry carries a serialized list of example sentences
Sentences(i) == IF i % 2 = 0 THEN <<"[", DQ, "a", DQ, "]">> ELSE EmptyStr

MissingFile == [exists |-> FALSE, lines |-> <<>>]
EmptyFile == [exists |-> TRUE, lines |-> <<>>]
HeaderOnlyFile == [exists |-> TRUE, lines |-> <<<<c_word, c_meaning>>>>]
BlankWordsFile ==
    [exists |-> TRUE, lines |-> <<<<c_word, c_meaning>>, <<<<" ">>>>>>]
\* more valid rows than WORDS_TO_SHOW
BigLexicon ==
    [exists |-> TRUE,
     lines |-> <<<<c_word, c_source_sentences>>>>
               \o [i \in 1..(WORDS_TO_SHOW + 1) |-> <<Word(i), Sentences(i)>>]]
\* fewer valid rows than WORDS_TO_SHOW, after a row without a word
SmallLexicon ==
    [exists |-> TRUE,
     lines |-> <<<<<<" ", "W", "o", "r", "d">>, c_meaning>>,
                 <<<<" ">>, <<"a">>>>>>
               \o [i \in 1..(WORDS_TO_SHOW - 1) |-> <<Word(i)>>]]

\* what data/<language>.csv can hold when Start is pressed
DataDir(language) ==
    IF language = "sotho" THEN {BigLexicon}
    ELSE IF language = "sepedi" THEN {MissingFile, SmallLexicon}
    ELSE {EmptyFile, HeaderOnlyFile, BlankWordsFile}

(***************************************************************************)
(* The inputs of the widgets.                                              *)
(***************************************************************************)
Names == {EmptyStr, <<" ">>, <<" ", "a", " ", "b">>}
\* what the participant has entered in the form when pressing submit: the
\* first leaves the text boxes blank but for an explanation typed before
\* choosing "No"; the second types only a space as the better meaning
FormInputs ==
    {[q1 |-> "Yes", q2 |-> EmptyStr, q3 |-> "Positive", q5 |-> "Yes",
      q6 |-> EmptyStr, q7 |-> "No", q8 |-> <<"a", " ">>],
     [q1 |-> "No", q2 |-> <<" ">>, q3 |-> "Negative", q5 |-> "Partly",
      q6 |-> <<"a", " ">>, q7 |-> "Yes", q8 |-> <<"a", " ">>]}

(***************************************************************************)
(* The validation stage (lines 710-869).                                   *)
(***************************************************************************)
\* A box of the form hands over the text entered in it only if the run
\* before drew it: a box drawn for the first time by the run that handles
\* the submit has its default, "" (lines 794-797, 816-819).  The run before
\* was the first run of the form, where the radios have their first option
\* (q5 "Yes", q7 "Yes"), or a submit whose save failed (lines 866-869).
Retrying(buffer, last_save) == buffer # <<>> /\ last_save = "fail"

Q6Drawn(buffer, last_save) ==
    /\ Retrying(buffer, last_save)
    /\ buffer[Len(buffer)].system_understands \in {"Partly", "No"}

Q8Drawn(buffer, last_save) ==
    Retrying(buffer, last_save) =>
        buffer[Len(buffer)].different_context = "Yes"

Widgets(in, buffer, last_save) ==
    [in EXCEPT !.q6 = IF Q6Drawn(buffer, last_save) THEN @ ELSE EmptyStr,
               !.q8 = IF Q8Drawn(buffer, last_save) THEN @ ELSE EmptyStr]

\* str(x).strip() if x else None  (lines 838, 841, 843)
OptionalText(x) == IF x # <<>> THEN Strip(x) ELSE NoneText

\* variant of SystemUnderstands that takes the radio's value whether or
\* not an example was shown
SystemUnderstandsAsked(example, q5) == q5

\* lines 785-804: the radio is drawn only under an example sentence
SystemUnderstands(example, q5) ==
    IF example # <<>> THEN q5 ELSE "N/A - No Example"

\* variant of ContextExplanation that reads the box whatever the radio says
ContextExplanationTyped(q7, q8) == q8

\* lines 816-823: the box is read only if the radio says "Yes"
ContextExplanation(q7, q8) == IF q7 = "Yes" THEN q8 ELSE EmptyStr

\* lines 719-741 and 785-849: the record one submit collects
AnswerData(df, label, in, now) ==
    LET example == example_sentence(Entry(df, label, c_source_sentences))
        q5_system_understands == SystemUnderstands(example, in.q5)
        q6_understanding_correction ==
            IF example # <<>> /\ in.q5 # "Yes" THEN in.q6 ELSE EmptyStr
        q8_context_explanation == ContextExplanation(in.q7, in.q8)
    IN  [word |-> Entry(df, label, c_word),
         meaning_correct |-> in.q1,
         meaning_fix |-> OptionalText(in.q2),
         word_sentiment |-> in.q3,
         system_understands |-> q5_system_understands,
         understanding_correction |->
             OptionalText(q6_understanding_correction),
         different_context |-> in.q7,
         context_explanation |-> OptionalText(q8_context_explanation),
         system_sentiment |-> Strip(Entry(df, label, c_sentiment)),
         system_intensity |-> Entry(df, label, c_intensity),
         prompt_type |-> Entry(df, label, c_prompt_type),
         example_sentence |-> StoredText(example),
         timestamp |-> now]

\* variant of Finished that tests > where the script tests >=
FinishedLate(current_index_pos, total_words) ==
    current_index_pos > total_words

\* variant of Finished that is one word early
FinishedEarly(current_index_pos, total_words) ==
    current_index_pos + 1 >= total_words

\* line 715
Finished(current_index_pos, total_words) == current_index_pos >= total_words

\* variant of AnswersToSave that hands over the whole buffer
WholeBuffer(buffer, answer_data) == buffer

\* line 856: the list handed to save_answers
AnswersToSave(buffer, answer_data) == <<answer_data>>

\* variant of NextPosition that stays on the word whatever the save returned
NeverAdvance(position, saved) == position

\* variant of NextPosition that advances whatever the save returned
AlwaysAdvance(position, saved) == position + 1

\* lines 861-869
NextPosition(position, saved) == IF saved THEN position + 1 ELSE position

\* variant of IndexList that counts the rows instead of reading the labels
RangeOfLen(df) == [i \in 1..Len(df.index) |-> i - 1]

\* lines 690-692: list(df.index), then random.shuffle
IndexList(df) == df.index
Shuffles(s) ==
    {[i \in 1..Len(s) |-> s[p[i]]] :
        p \in {q \in [1..Len(s) -> 1..Len(s)] :
                 \A a, b \in 1..Len(s) : a # b => q[a] # q[b]}}

\* line 659
ParticipantId(language, name, now) ==
    [language |-> language,
     name |-> Replace(name, <<" ">>, <<"_">>),
     timestamp |-> now]

(***************************************************************************)
(* Spec: one session.  Every action is one run of the script.              *)
(***************************************************************************)
Languages == Range(AVAILABLE_LANGUAGES)

\* variant of Defaults whose stage is a name no page of the script handles
DefaultsUnknownStage ==
    /\ app_stage' = "start"
    /\ user_language' = None
    /\ user_name' = EmptyStr
    /\ participant_id' = NoParticipant
    /\ word_df' = EmptyDataFrame
    /\ word_indices' = <<>>
    /\ current_word_idx_position' = 0
    /\ user_answers' = <<>>
    /\ form_key' = 0
    /\ lexicon_error' = None
    /\ user_name_input' = EmptyStr

\* variant of Defaults that keeps the identity of the participant over the
\* reset (keys_to_keep holding 'user_name' and 'participant_id')
DefaultsKeepIdentity ==
    /\ app_stage' = "welcome"
    /\ user_language' = None
    /\ UNCHANGED <<user_name, participant_id>>
    /\ word_df' = EmptyDataFrame
    /\ word_indices' = <<>>
    /\ current_word_idx_position' = 0
    /\ user_answers' = <<>>
    /\ form_key' = 0
    /\ lexicon_error' = None
    /\ user_name_input' = EmptyStr

\* initialize_state (lines 63-81)
Defaults ==
    /\ app_stage' = "welcome"
    /\ user_language' = None
    /\ user_name' = EmptyStr
    /\ participant_id' = NoParticipant
    /\ word_df' = EmptyDataFrame
    /\ word_indices' = <<>>
    /\ current_word_idx_position' = 0
    /\ user_answers' = <<>>
    /\ form_key' = 0
    /\ lexicon_error' = None
    /\ user_name_input' = EmptyStr

Init ==
    /\ app_stage = "welcome"
    /\ user_language = None
    /\ user_name = EmptyStr
    /\ participant_id = NoParticipant
    /\ word_df = EmptyDataFrame
    /\ word_indices = <<>>
    /\ current_word_idx_position = 0
    /\ user_answers = <<>>
    /\ form_key = 0
    /\ lexicon_error = None
    /\ user_name_input = EmptyStr
    /\ rerun_pending = FALSE
    /\ save_success = None
    /\ clock = 0
    /\ participants_before = 0
    /\ participants_log = <<>>
    /\ answers_log = [l \in Languages |-> <<>>]
    /\ LexIdle /\ DecIdle /\ StoreIdle

otherVars == <<lexVars, decVars, storeVars>>

\* lines 633-644: a language button of the welcome stage
SelectLanguage ==
    /\ app_stage = "welcome" /\ ~rerun_pending
    /\ \E lang \in Languages : user_language' = lang
    /\ app_stage' = "user_info"
    /\ lexicon_error' = None
    /\ rerun_pending' = TRUE
    /\ UNCHANGED <<user_name, participant_id, word_df, word_indices,
                   current_word_idx_position, user_answers, form_key,
                   user_name_input, save_success, clock, participants_before,
                   participants_log, answers_log, otherVars>>

\* lines 653-702: the Start button of the user_info stage
StartChecking ==
    /\ app_stage = "user_info" /\ ~rerun_pending
    /\ \E name \in Names, saved \in BOOLEAN :
        LET user_name_stripped == Strip(name)
            now == clock + 1
            pid == ParticipantId(user_language, user_name_stripped, now)
        IN
        /\ user_name_input' = name                           \* line 651
        /\ IF user_name_stripped = <<>>
           THEN UNCHANGED <<app_stage, user_name, participant_id, \* line 702
                            word_df, word_indices, current_word_idx_position,
                            user_answers, form_key, lexicon_error,
                            rerun_pending, clock, participants_log>>
           ELSE
           \* the bound leaves the readings a session needs to finish
           /\ clock + WORDS_TO_SHOW < MaxClock
           /\ clock' = now
           /\ user_name' = user_name_stripped
           /\ participant_id' = pid
           /\ IF ~saved
              THEN UNCHANGED <<app_stage, word_df, word_indices, \* line 699
                               current_word_idx_position, user_answers,
                               form_key, lexicon_error, rerun_pending,
                               participants_log>>
              ELSE
              /\ participants_log' =
                    save_participant_info(participants_log, pid,
                                          user_name_stripped, user_language,
                                          now)
              /\ \E file \in DataDir(user_language) :
                 \E r \in load_lexicon(file, user_language, WORDS_TO_SHOW) :
                    /\ lexicon_error' = r.lexicon_error
                    /\ IF r.lexicon_error # None \/ IsEmptyDF(r.df)
                       THEN UNCHANGED <<app_stage, word_df, word_indices,
                                        current_word_idx_position,
                                        user_answers, form_key, rerun_pending>>
                       ELSE /\ word_df' = r.df
                            /\ word_indices' \in Shuffles(IndexList(r.df))
                            /\ current_word_idx_position' = 0
                            /\ user_answers' = <<>>
                            /\ form_key' = 0
                            /\ app_stage' = "validation"
                            /\ rerun_pending' = TRUE
    /\ UNCHANGED <<user_language, save_success, participants_before,
                   answers_log>>
    /\ UNCHANGED otherVars

\* lines 704-706
BackToLanguageSelection ==
    /\ app_stage = "user_info" /\ ~rerun_pending
    /\ app_stage' = "welcome"
    /\ rerun_pending' = TRUE
    /\ UNCHANGED <<user_language, user_name, participant_id, word_df,
                   word_indices, current_word_idx_position, user_answers,
                   form_key, lexicon_error, user_name_input, save_success,
                   clock,
                   participants_before, participants_log, answers_log,
                   otherVars>>

\* variant of Rerun that shuffles the indices again whenever it draws a page
\* of the validation stage
RerunReshuffles ==
    /\ rerun_pending
    /\ IF app_stage = "validation"
       THEN /\ word_indices' \in Shuffles(IndexList(word_df))
            /\ IF current_word_idx_position >= Len(word_indices)
               THEN app_stage' = "complete" /\ UNCHANGED rerun_pending
               ELSE rerun_pending' = FALSE /\ UNCHANGED app_stage
            /\ UNCHANGED user_answers
       ELSE /\ user_answers' = IF app_stage = "complete" THEN <<>>
                               ELSE user_answers
            /\ rerun_pending' = FALSE
            /\ UNCHANGED <<app_stage, word_indices>>
    /\ user_name_input' =
         IF app_stage = "user_info" THEN user_name_input ELSE user_name
    /\ UNCHANGED <<user_language, user_name, participant_id, word_df,
                   current_word_idx_position, form_key, lexicon_error,
                   save_success, clock, participants_before,
                   participants_log, answers_log, otherVars>>

\* the run st.rerun() asked for: it draws the page of the current stage
Rerun ==
    /\ rerun_pending
    /\ IF app_stage = "validation"
       THEN IF Finished(current_word_idx_position, Len(word_indices))
            THEN /\ app_stage' = "complete"                  \* lines 715-717
                 /\ UNCHANGED <<rerun_pending, user_answers>>
            ELSE /\ rerun_pending' = FALSE                   \* the word form
                 /\ UNCHANGED <<app_stage, user_answers>>
       ELSE IF app_stage = "complete"
            THEN /\ user_answers' = <<>>                     \* lines 880-883
                 /\ rerun_pending' = FALSE
                 /\ UNCHANGED app_stage
            ELSE /\ rerun_pending' = FALSE
                 /\ UNCHANGED <<app_stage, user_answers>>
    \* a page without the name box drops the box's text; the box is made
    \* again with value=user_name (line 651)
    /\ user_name_input' =
         IF app_stage = "user_info" THEN user_name_input ELSE user_name
    /\ UNCHANGED <<user_language, user_name, participant_id, word_df,
                   word_indices, current_word_idx_position, form_key,
                   lexicon_error, save_success, clock, participants_before,
                   participants_log, answers_log, otherVars>>

\* lines 830-869: the form's submit button; `saved` is what the write of
\* save_answers comes to (a failed write leaves the file as it was)
Submit ==
    /\ app_stage = "validation" /\ ~rerun_pending
    /\ \E in \in FormInputs, saved \in BOOLEAN :
        LET current_df_idx == word_indices[current_word_idx_position + 1]
            now == clock + 1
            answer_data ==
                AnswerData(word_df, current_df_idx,
                           Widgets(in, user_answers, save_success), now)
            buffer == Append(user_answers, answer_data)
            WordsLeft == Len(word_indices) - current_word_idx_position
        IN
        \* the bound stops failing saves before it can stop one that succeeds
        /\ clock < MaxClock
        /\ saved \/ clock + WordsLeft < MaxClock
        /\ clock' = now
        /\ user_answers' = buffer
        /\ save_success' = IF saved THEN "ok" ELSE "fail"
        /\ answers_log' =
             IF saved
             THEN [answers_log EXCEPT ![user_language] =
                     save_answers(@, AnswersToSave(buffer, answer_data),
                                  user_language, participant_id)]
             ELSE answers_log
        /\ current_word_idx_position' =
             NextPosition(current_word_idx_position, saved)
        /\ form_key' = IF saved THEN form_key + 1 ELSE form_key
        /\ rerun_pending' = saved
    /\ UNCHANGED <<app_stage, user_language, user_name, participant_id,
                   word_df, word_indices, lexicon_error, user_name_input,
                   participants_before, participants_log, otherVars>>

\* lines 887-896
StartOver ==
    /\ app_stage = "complete" /\ ~rerun_pending
    /\ Defaults
    /\ rerun_pending' = TRUE
    /\ participants_before' = Len(DataRows(participants_log))
    /\ UNCHANGED <<save_success, clock, participants_log, answers_log,
                   otherVars>>

Next ==
    \/ SelectLanguage
    \/ StartChecking
    \/ BackToLanguageSelection
    \/ Rerun
    \/ Submit
    \/ StartOver

Spec == Init /\ [][Next]_vars

\* a submit whose save_answers call returns True (lines 855-865)
SubmitSaved == Submit /\ save_success' = "ok"

\* the form is shown and its submit button can be pressed
SubmitShown == app_stage = "validation" /\ ~rerun_pending /\ clock < MaxClock

\* Spec with the scheduling of the script: the run st.rerun() asks for is
\* always made (lines 644, 697, 706, 717, 865, 896); the participant keeps
\* pressing the submit button of the form that is shown, and a save that is
\* retried succeeds in the end.  The second condition is WF_vars(SubmitSaved)
\* with the action's enabling condition written out.
SpecLive ==
    /\ Init /\ [][Next]_vars
    /\ WF_vars(Rerun)
    /\ ([]<>~SubmitShown \/ []<><<SubmitSaved>>_vars)

(***************************************************************************)
(* SpecStore: processes (script runs of different sessions) that call      *)
(* save_participant_info or save_answers at the same time.  Between the    *)
(* existence check (lines 313, 354) and the append (lines 314, 357) of one *)
(* process the other processes can run.                                    *)
(***************************************************************************)
Procs == {"p1", "p2"}
LogFiles == {"participants.csv", "answers_sotho.csv"}

\* the rows process p has appended so far, over all files
RECURSIVE RowsOf(_, _)
RowsOf(p, files) ==
    IF files = {} THEN 0
    ELSE LET f == CHOOSE g \in files : TRUE
             By(r) == r.proc = p
         IN  Len(SelectSeq(DataRows(st_files[f]), By)) + RowsOf(p, files \ {f})

InitStore ==
    /\ st_files = [f \in LogFiles |-> <<>>]
    /\ st_pc = [p \in Procs |-> "idle"]
    /\ st_file_exists = [p \in Procs |-> FALSE]
    /\ st_target = [p \in Procs |-> "participants.csv"]
    /\ SessionIdle /\ LexIdle /\ DecIdle

\* a handler calls save_participant_info (line 662) or save_answers (855)
CallSave(p) ==
    /\ st_pc[p] = "idle"
    /\ RowsOf(p, LogFiles) < MaxAppends
    /\ \E f \in LogFiles : st_target' = [st_target EXCEPT ![p] = f]
    /\ st_pc' = [st_pc EXCEPT ![p] = "check"]
    /\ UNCHANGED <<st_files, st_file_exists, sessionVars, lexVars, decVars>>

\* file_exists = os.path.exists(path)  (lines 313, 354)
CheckExists(p) ==
    /\ st_pc[p] = "check"
    /\ st_file_exists' =
          [st_file_exists EXCEPT ![p] = FileExists(st_files[st_target[p]])]
    /\ st_pc' = [st_pc EXCEPT ![p] = "append"]
    /\ UNCHANGED <<st_files, st_target, sessionVars, lexVars, decVars>>

\* df_new.to_csv(path, mode='a', header=not file_exists)  (lines 314, 357)
AppendRow(p) ==
    /\ st_pc[p] = "append"
    /\ st_files' =
          [st_files EXCEPT ![st_target[p]] =
              ToCsvAppend(@, <<[proc |-> p, seq |-> RowsOf(p, LogFiles) + 1]>>,
                          st_file_exists[p])]
    /\ st_pc' = [st_pc EXCEPT ![p] = "idle"]
    /\ st_file_exists' = [st_file_exists EXCEPT ![p] = FALSE]
    /\ UNCHANGED <<st_target, sessionVars, lexVars, decVars>>

NextStore == \E p \in Procs : CallSave(p) \/ CheckExists(p) \/ AppendRow(p)
SpecStore == InitStore /\ [][NextStore]_vars

(***************************************************************************)
(* Properties of the response store under concurrency (SpecStore).         *)
(***************************************************************************)
Headers(lines) == {i \in 1..Len(lines) : lines[i].kind = "header"}

\* C5: when processes append concurrently to the same log file, with the
\* existence check and the append as separate steps, the file holds its
\* header row exactly once.
C5_HeaderOnce ==
    \A f \in DOMAIN st_files :
        st_files[f] # <<>> => Cardinality(Headers(st_files[f])) = 1

\* a log file into which two processes each wrote a header
C5_TwoHeaders ==
    \E f \in DOMAIN st_files :
        /\ Cardinality(Headers(st_files[f])) = 2
        /\ \A p \in Procs : st_pc[p] = "idle"

(***************************************************************************)
(* Properties of the lexicon ingestion (SpecLexicon).                      *)
(***************************************************************************)
Injective(f) == \A a, b \in DOMAIN f : a # b => f[a] # f[b]

\* C6: for every lexicon whose cleaning leaves n >= 1 valid rows and every
\* sample size k, load_lexicon reports no error and returns exactly
\* min(k, n) rows, each a distinct row of the cleaned table.
C6_SampleSize ==
    LET cleaned == lex_result.full_df.rows
        rows == lex_result.df.rows
    IN  lex_pc = "loaded" /\ Len(cleaned) >= 1 =>
            /\ lex_result.lexicon_error = None
            /\ Len(rows) = Min(lex_num_words, Len(cleaned))
            /\ \E f \in [1..Len(rows) -> 1..Len(cleaned)] :
                  /\ Injective(f)
                  /\ \A i \in 1..Len(rows) : rows[i] = cleaned[f[i]]
            /\ Len(cleaned) < lex_num_words =>
                  lex_result.df = lex_result.full_df

\* a sample of k >= 1 rows drawn from a cleaned table of more than k rows
\* that differ from each other
C6_Sampled ==
    /\ lex_pc = "loaded"
    /\ lex_num_words >= 1
    /\ Len(lex_result.full_df.rows) > lex_num_words
    /\ Len(lex_result.df.rows) = lex_num_words
    /\ lex_result.full_df.rows[1] # lex_result.full_df.rows[2]

\* the data lines of the file that have a field with a non-blank character
C8_HasText(row) ==
    \E j \in 1..Len(row) : \E c \in 1..Len(row[j]) : row[j][c] # " "
C8_TextLines == SelectSeq(Tail(lex_file.lines), C8_HasText)
C8_DataLines == Tail(lex_file.lines)
\* the first n fields of a row, '' where the row has none
C8_Fitted(row, n) == [j \in 1..n |-> IF j <= Len(row) THEN row[j] ELSE <<>>]
\* the position of the word column in the table read from the file
C8_WordPos ==
    LET d == normalize_column_names(lex_result.parsed)
    IN  ColumnPos(d, WordColumn(d))

C9_NoBlankWord ==
    lex_pc = "loaded" =>
        \A i \in 1..Len(lex_result.df.rows) :
            Strip(Cell(lex_result.df, i, c_word)) # <<>>

\* the file had a row with text but a whitespace-only word, next to a row
\* that was returned
C9_BlankWordDropped ==
    /\ lex_pc = "loaded"
    /\ Len(lex_result.df.rows) >= 1
    /\ \E i \in 1..Len(lex_result.parsed.rows) :
          LET w == lex_result.parsed.rows[i][C8_WordPos]
          IN  w # <<>> /\ Strip(w) = <<>>

(***************************************************************************)
(* Properties of the decoding of example sentences (SpecDecode).           *)
(***************************************************************************)
\* the text is a list literal of Python
C10_ListLiteral(text) ==
    LET p == ast_literal_eval(text) IN p.ok /\ p.val.t = "list"

\* C10: for every text that is not a well-formed list literal, decoding
\* gives the same result on every call, raises no exception, and degrades
\* to "no example": example_sentence is empty and the stored
\* example_sentence is absent.
C10_NoExample ==
    dec_pc = "decoded" /\ ~C10_ListLiteral(dec_text) =>
        \A i \in 1..Len(dec_result) :
            /\ dec_result[i] = dec_result[1]
            /\ ~dec_result[i].raised
            /\ dec_result[i].example_sentence = <<>>
            /\ dec_result[i].stored = NoneText

\* a text that is no list literal and whose decoding raised
C10_Raises ==
    /\ dec_pc = "decoded"
    /\ ~C10_ListLiteral(dec_text)
    /\ dec_result[1].raised

(***************************************************************************)
(* Properties of one session (Spec).                                       *)
(***************************************************************************)
\* the rows of this session's participant in the answer log of its language
MyAnswers ==
    LET Mine(r) == r.participant_id = participant_id
    IN  SelectSeq(DataRows(answers_log[user_language]), Mine)
MyAnswersNext ==
    LET Mine(r) == r.participant_id = participant_id'
    IN  SelectSeq(DataRows(answers_log'[user_language']), Mine)

\* the word shown at a position of the permutation
WordAt(i) == Entry(word_df, word_indices[i], c_word)

\* a step of the validation stage in which the form was submitted
IsSubmit ==
    /\ app_stage = "validation"
    /\ Len(user_answers') = Len(user_answers) + 1

\* C1: in the validation stage the position increases, by exactly 1, only
\* in a submit whose save_answers call returned success (and wrote the row
\* of the word); when the call returned failure the position is unchanged
\* and the same word of the same sample is rendered next.
C1_AdvanceOnlyOnSuccess ==
    [][ /\ (app_stage = "validation"
            /\ current_word_idx_position' # current_word_idx_position)
           => /\ IsSubmit
              /\ save_success' = "ok"
              /\ current_word_idx_position' = current_word_idx_position + 1
              /\ Len(MyAnswersNext) = Len(MyAnswers) + 1
        /\ (IsSubmit /\ save_success' = "fail")
           => /\ current_word_idx_position' = current_word_idx_position
              /\ answers_log' = answers_log
              /\ app_stage' = "validation" /\ ~rerun_pending'
              /\ word_df' = word_df /\ word_indices' = word_indices
              /\ form_key' = form_key
        /\ (IsSubmit /\ save_success' = "ok")
           => current_word_idx_position' = current_word_idx_position + 1
      ]_vars

\* a failed submit after a successful one: the form stays on the second word
C1_FailedSubmit ==
    /\ app_stage = "validation" /\ ~rerun_pending
    /\ save_success = "fail"
    /\ current_word_idx_position = 1
    /\ Len(user_answers) = 2

\* C2: after any sequence of successful and failed submits, the answer log
\* of the language holds exactly one row of this participant for every
\* position below the current one, in order, and none for the current or a
\* later position; a failure followed by a retry leaves no duplicate.
C2_OneRowPerAnsweredWord ==
    app_stage \in {"validation", "complete"} =>
        /\ Len(MyAnswers) = current_word_idx_position
        /\ \A i \in 1..Len(MyAnswers) : MyAnswers[i].answer.word = WordAt(i)
        /\ \A i, j \in 1..Len(MyAnswers) :
              i # j => MyAnswers[i].answer.word # MyAnswers[j].answer.word

\* the first word was submitted twice: the save failed, the retry succeeded
C2_RetrySucceeded ==
    /\ app_stage = "validation"
    /\ current_word_idx_position = 1
    /\ Len(user_answers) = 2
    /\ save_success = "ok"

\* the sample size the lexicon of the session's language gives
SampleSize ==
    IF user_language = "sotho" THEN WORDS_TO_SHOW ELSE WORDS_TO_SHOW - 1

\* C3: a session moves from validation to complete exactly when the
\* position has reached the sample size, after len(word_indices) successful
\* appends (WORDS_TO_SHOW for the lexicon with more rows, all rows for the
\* lexicon with fewer) made in the order of word_indices; it is never in
\* complete with the position below the sample size, and never waits in
\* validation with the position at the sample size.
C3_CompleteAtSampleSize ==
    [][ /\ (app_stage = "validation" /\ app_stage' = "complete")
           => /\ current_word_idx_position = Len(word_indices)
              /\ Len(word_indices) = SampleSize
              /\ Len(MyAnswers) = Len(word_indices)
              /\ \A i \in 1..Len(word_indices) :
                    MyAnswers[i].answer.word = WordAt(i)
        /\ (app_stage = "validation"
            /\ current_word_idx_position = Len(word_indices))
           => app_stage' = "complete"
        /\ app_stage' = "complete"
           => /\ app_stage \in {"validation", "complete"}
              /\ current_word_idx_position' = Len(word_indices')
        /\ (app_stage' = "validation" /\ ~rerun_pending')
           => current_word_idx_position' < Len(word_indices')
      ]_vars

\* complete, after WORDS_TO_SHOW words of the larger lexicon
C3_Completed ==
    /\ app_stage = "complete"
    /\ Len(word_indices) = WORDS_TO_SHOW
    /\ current_word_idx_position = WORDS_TO_SHOW
    /\ Len(MyAnswers) = WORDS_TO_SHOW

\* the rows appended to the participant log since the session state was
\* initialised
SessionParticipants ==
    SubSeq(DataRows(participants_log), participants_before + 1,
           Len(DataRows(participants_log)))

\* C4: the participant record of a session is created once: from language
\* selection to complete, Start clicks with a failed lexicon ingestion
\* included, exactly one row is appended to the participant log and
\* participant_id is not changed after it was first assigned (the id of the
\* session is the id of every row it appended).
C4_OneParticipantRow ==
    app_stage \in {"validation", "complete"} =>
        /\ Len(SessionParticipants) = 1
        /\ \A i \in 1..Len(SessionParticipants) :
              SessionParticipants[i].participant_id = participant_id

\* a session in validation that has appended two participant rows
C4_TwoParticipantRows ==
    /\ app_stage = "validation"
    /\ Len(SessionParticipants) = 2
    /\ SessionParticipants[1].participant_id # participant_id
    /\ SessionParticipants[2].participant_id = participant_id

\* C7: after a successful start word_indices is a bijection over the row
\* labels of word_df: every label appears exactly once and nothing else
\* appears, also when the labels are not contiguous.
C7_IndicesBijection ==
    app_stage \in {"validation", "complete"} =>
        /\ Len(word_indices) = Len(word_df.index)
        /\ \A l \in Range(word_df.index) :
              Cardinality({i \in 1..Len(word_indices) :
                              word_indices[i] = l}) = 1
        /\ \A i \in 1..Len(word_indices) :
              word_indices[i] \in Range(word_df.index)
        /\ \A i, j \in 1..Len(word_df.index) :
              i # j => word_df.index[i] # word_df.index[j]

\* the whole cleaned table was taken and its labels do not start at 0
C7_NonContiguousLabels ==
    /\ app_stage = "validation"
    /\ Len(word_indices) >= 1
    /\ word_df.index # [i \in 1..Len(word_df.index) |-> i - 1]

\* the stages the script has a page for (lines 633, 647, 710, 872)
Stages == {"welcome", "user_info", "validation", "complete"}

\* C11: app_stage is always one of welcome, user_info, validation and
\* complete, so the fallback page (lines 898-906) is never drawn, and the
\* stage changes only from welcome to user_info, from user_info to
\* validation, from validation to complete, from user_info back to welcome
\* and from complete to welcome.
C11_StageMachine ==
    [][ /\ app_stage \in Stages
        /\ app_stage' \in Stages
        /\ app_stage' # app_stage
           => <<app_stage, app_stage'>> \in
                 {<<"welcome", "user_info">>, <<"user_info", "validation">>,
                  <<"validation", "complete">>, <<"user_info", "welcome">>,
                  <<"complete", "welcome">>}
      ]_vars

\* a second session in user_info: the first went through every stage and
\* was reset
C11_SecondSession ==
    /\ app_stage = "user_info"
    /\ participants_before >= 1

\* a Start click whose participant row was written, so that load_lexicon
\* was called (lines 662-673)
IsIngestion ==
    /\ app_stage = "user_info"
    /\ participants_log' # participants_log

\* C12: when the ingestion of a Start click fails (the lexicon file is
\* missing, empty, unparsable or without a valid word) the session stays in
\* user_info with a message in lexicon_error, and word_df, word_indices,
\* current_word_idx_position and user_answers are unchanged; no rerun is
\* asked for, so the Start and Back buttons are live again.  Every file of
\* the language whose files are all bad fails in this way.
C12_FailedIngestionStays ==
    [][ /\ (IsIngestion /\ app_stage' # "validation")
           => /\ app_stage' = "user_info"
              /\ lexicon_error' \notin {None, ""}
              /\ word_df' = word_df
              /\ word_indices' = word_indices
              /\ current_word_idx_position' = current_word_idx_position
              /\ user_answers' = user_answers
              /\ ~rerun_pending'
        /\ (IsIngestion /\ user_language = "setswana")
           => app_stage' # "validation"
        /\ (IsIngestion /\ app_stage' = "validation")
           => lexicon_error' = None
      ]_vars

\* user_info after a Start click whose ingestion failed
C12_IngestionFailed ==
    /\ app_stage = "user_info" /\ ~rerun_pending
    /\ lexicon_error # None
    /\ Len(SessionParticipants) >= 1
    /\ word_indices = <<>>

\* a text without a character other than whitespace
Blank(s) == \A i \in 1..Len(s) : IsSpace(s[i])

\* C13: a Start click with an empty or whitespace-only name is rejected:
\* the stage stays user_info, no participant row is appended, no lexicon
\* is ingested (lexicon_error, word_df and word_indices are untouched, no
\* rerun is asked for) and user_name and participant_id are unchanged.
\* Conversely the name a session carries is never blank.
C13_BlankNameRejected ==
    [][ /\ (app_stage = "user_info" /\ ~rerun_pending
            /\ app_stage' # "welcome" /\ Blank(user_name_input'))
           => /\ app_stage' = "user_info"
              /\ participants_log' = participants_log
              /\ participant_id' = participant_id
              /\ user_name' = user_name
              /\ lexicon_error' = lexicon_error
              /\ word_df' = word_df
              /\ word_indices' = word_indices
              /\ clock' = clock
              /\ ~rerun_pending'
        /\ (app_stage = "user_info" /\ user_name' # user_name)
           => ~Blank(user_name')
      ]_vars

\* Start was clicked with a space in the name box, before any name was
\* accepted
C13_SpaceTyped ==
    /\ app_stage = "user_info" /\ ~rerun_pending
    /\ user_name_input = <<" ">>
    /\ participant_id = NoParticipant
    /\ participants_log = <<>>

\* C14: Start Over brings the session from complete to welcome and leaves
\* every session variable at the default initialize_state gives it: no
\* language, no name, no participant id, an empty word table, no indices,
\* position 0, an empty answer buffer, form key 0, no lexicon error and an
\* empty name box; the script is run again at once.
C14_StartOverResets ==
    [][ (app_stage = "complete" /\ app_stage' # "complete")
           => /\ app_stage' = "welcome"
              /\ user_language' = None
              /\ user_name' = EmptyStr
              /\ participant_id' = NoParticipant
              /\ word_df' = EmptyDataFrame
              /\ word_indices' = <<>>
              /\ current_word_idx_position' = 0
              /\ user_answers' = <<>>
              /\ form_key' = 0
              /\ lexicon_error' = None
              /\ user_name_input' = EmptyStr
              /\ rerun_pending'
      ]_vars

\* welcome, right after the Start Over click of a finished session
C14_AfterStartOver ==
    /\ app_stage = "welcome" /\ rerun_pending
    /\ participants_before >= 1
    /\ user_language = None
    /\ \E l \in Languages : Len(DataRows(answers_log[l])) >= 1

\* the example sentence the form shows for a word of the sample
\* (lines 734-741)
ExampleShownFor(word) ==
    LET label == CHOOSE l \in Range(word_df.index) :
                     Entry(word_df, l, c_word) = word
    IN  example_sentence(Entry(word_df, label, c_source_sentences))

\* the records of the session: the buffer and the rows it has logged
SessionRecords ==
    user_answers \o [i \in 1..Len(MyAnswers) |-> MyAnswers[i].answer]

C16_NoContextNoExplanation ==
    app_stage = "validation" =>
        \A i \in 1..Len(SessionRecords) :
            SessionRecords[i].different_context = "No"
                => SessionRecords[i].context_explanation = NoneText

\* the first submit of a form was logged with "No"; the explanation box of
\* that form was drawn and every input that chooses "No" has text in it
C16_NoAfterTyping ==
    /\ app_stage = "validation"
    /\ \A in \in FormInputs : in.q7 = "No" => in.q8 # EmptyStr
    /\ Len(user_answers) = 1
    /\ Len(MyAnswers) = 1
    /\ MyAnswers[1].answer.different_context = "No"
    /\ MyAnswers[1].answer.context_explanation = NoneText

\* the free-text fields of a record
FreeTexts(r) ==
    {r.meaning_fix, r.understanding_correction, r.context_explanation}

\* C17: no record has a free-text field (meaning_fix,
\* understanding_correction, context_explanation) equal to the empty
\* string: a blank field, whitespace-only text included, is stored as None.
C17_BlankStoredAsNone ==
    app_stage = "validation" =>
        \A i \in 1..Len(SessionRecords) :
            EmptyStr \notin FreeTexts(SessionRecords[i])

\* a logged record whose meaning_fix is the empty string
C17_EmptyStringLogged ==
    /\ app_stage = "validation"
    /\ Len(MyAnswers) >= 1
    /\ MyAnswers[1].answer.meaning_fix = EmptyStr
    /\ MyAnswers[1].answer.meaning_correct = "No"

\* no lexicon file of the data directory has a prompt_type column
NoPromptTypeColumn ==
    \A l \in Languages : \A file \in DataDir(l) :
        \A i \in 1..Len(file.lines) :
            \A j \in 1..Len(file.lines[i]) :
                Lower(Strip(file.lines[i][j])) # c_prompt_type

\* C18: the lexicon files have no prompt_type column, so after ingestion
\* every entry of word_df has prompt_type "Unknown" and every answer record
\* carries prompt_type "Unknown".
C18_PromptTypeUnknown ==
    (NoPromptTypeColumn /\ app_stage = "validation") =>
        /\ \A l \in Range(word_df.index) :
              Entry(word_df, l, c_prompt_type) = Unknown
        /\ \A i \in 1..Len(SessionRecords) :
              SessionRecords[i].prompt_type = Unknown

\* a logged record, and the entry it was made for, with the empty string as
\* prompt_type
C18_EmptyPromptType ==
    /\ NoPromptTypeColumn
    /\ app_stage = "validation"
    /\ Len(MyAnswers) >= 1
    /\ MyAnswers[1].answer.prompt_type = EmptyStr
    /\ Entry(word_df, word_indices[1], c_prompt_type) = EmptyStr

\* C19: under SpecLive every session that has entered validation reaches
\* complete, with one logged answer for each word of its sample: as many as
\* the lexicon has valid words when they are fewer than WORDS_TO_SHOW, and
\* WORDS_TO_SHOW otherwise.
C19_ValidationCompletes ==
    (app_stage = "validation")
        ~> (/\ app_stage = "complete"
            /\ current_word_idx_position = Len(word_indices)
            /\ Len(word_indices) = SampleSize
            /\ Len(MyAnswers) = SampleSize)

\* complete was reached although a save had failed: the buffer holds more
\* submits than the sample has words
C19_CompletedAfterRetry ==
    /\ app_stage = "complete"
    /\ Len(word_indices) = WORDS_TO_SHOW
    /\ Len(user_answers) > Len(word_indices)

\* C20: the sample and its order are fixed for the session: word_df and
\* word_indices get their values in the step that enters validation and no
\* step taken in validation or in complete (a render, a submit whose save
\* succeeds or fails, the move to complete) changes them, until Start Over
\* leaves complete.
C20_SampleFixed ==
    [][ /\ (app_stage \in {"validation", "complete"}
            /\ app_stage' \in {"validation", "complete"})
           => /\ word_df' = word_df
              /\ word_indices' = word_indices
        /\ (word_df' # word_df \/ word_indices' # word_indices)
           => \/ app_stage = "user_info" /\ app_stage' = "validation"
              \/ app_stage = "complete" /\ app_stage' = "welcome"
      ]_vars

\* the complete page has been drawn for a sample of WORDS_TO_SHOW words,
\* after a Start or a submit that had to be repeated
C20_SampleKept ==
    /\ app_stage = "complete" /\ ~rerun_pending
    /\ Len(word_indices) = WORDS_TO_SHOW
    /\ Len(word_df.index) = WORDS_TO_SHOW
    /\ clock > WORDS_TO_SHOW + 1
    /\ user_answers = <<>>

\* every submit of the session was saved: the logged answers carry the
\* clock readings that follow the one of the Start click, without a gap
NoSaveFailed ==
    /\ Len(MyAnswers) = Len(word_indices)
    /\ \A i \in 1..Len(MyAnswers) :
          MyAnswers[i].answer.timestamp = participant_id.timestamp + i

\* the state a session is in when it has just moved to complete: the page
\* of the complete stage is still to be drawn (lines 716-717)
EnteredComplete == app_stage = "complete" /\ rerun_pending

\* C21: when a session enters complete and every submit was saved at once,
\* the buffer user_answers is empty.
C21_BufferEmptyOnEntry ==
    (EnteredComplete /\ NoSaveFailed) => user_answers = <<>>

\* complete was entered without a failed save and the buffer holds the
\* record of every word of the sample
C21_BufferFullOnEntry ==
    /\ EnteredComplete /\ NoSaveFailed
    /\ Len(word_indices) = WORDS_TO_SHOW
    /\ Len(user_answers) = WORDS_TO_SHOW
    /\ \A i \in 1..WORDS_TO_SHOW : user_answers[i] = MyAnswers[i].answer

\* the runs that look a word up (lines 720-721): the form is on the page,
\* or it is being drawn by the run st.rerun() asked for
WordLookedUp ==
    /\ app_stage = "validation"
    /\ ~rerun_pending \/ (app_stage' = "validation" /\ ~rerun_pending')

\* C22: in validation and in complete the position is within
\* 0..len(word_indices) and the sample has at least one word; the position
\* never decreases while the session stays in these stages; and every run
\* that looks a word up does so with position < len(word_indices) and finds
\* word_indices[position] among the row labels of word_df.
C22_PositionInRange ==
    [][ /\ app_stage' \in {"validation", "complete"}
           => /\ current_word_idx_position' \in 0..Len(word_indices')
              /\ Len(word_indices') >= 1
        /\ (app_stage \in {"validation", "complete"}
            /\ app_stage' \in {"validation", "complete"})
           => current_word_idx_position' >= current_word_idx_position
        /\ WordLookedUp
           => /\ current_word_idx_position < Len(word_indices)
              /\ word_indices[current_word_idx_position + 1]
                    \in Range(word_df.index)
      ]_vars

\* the form shows the last word of a sample of WORDS_TO_SHOW words, every
\* word before it saved at the first submit
C22_LastWordShown ==
    /\ app_stage = "validation" /\ ~rerun_pending
    /\ Len(word_indices) = WORDS_TO_SHOW
    /\ current_word_idx_position = WORDS_TO_SHOW - 1
    /\ Len(user_answers) = current_word_idx_position
    /\ word_indices[WORDS_TO_SHOW] \in Range(word_df.index)

=============================================================================
